---- MODULE Spec2Model ----
(***************************************************************************)
(* State-machine model of the order-tracking cluster engine                *)
(* (lib/clusters.py, lib/tracking.py) and of the cost orchestrator         *)
(* (lib/group_site_manager.py).                                            *)
(*                                                                         *)
(* Conventions.                                                            *)
(*  - A Cluster object is a record; its "id" field is the identity of the  *)
(*    Python object (assigned at construction, never read by the code).    *)
(*  - Monetary fields are integers; last_ship_date is a natural number     *)
(*    ordered like the date strings, 0 standing for the '0' sentinel.      *)
(*  - notes is the sequence of its ", "-separated parts ("" is << >>).     *)
(*  - The default argument non_reimbursed_trackings=set() of _initiate is  *)
(*    ONE object, shared by every cluster built without that argument;     *)
(*    such a cluster has nrt_ref = "default" and its set lives in          *)
(*    shared.default.  nrt_ref = "own" means a private set.                *)
(***************************************************************************)
EXTENDS Integers, Sequences, FiniteSets, TLC

VARIABLES
  clusters,    \* the caller's in-memory collection (list of Cluster)
  shared,      \* sets aliased between clusters: [default |-> ..]
  nextId,      \* number of Cluster objects constructed so far + 1
  prev,        \* history: the collection before the last operation
  prevShared,  \* history: shared before the last operation
  lastOp,      \* history: name of the last operation
  prevOp,      \* history: name of the operation before that
  lastArg,     \* history: argument of the last operation
  prevArg,     \* history: argument of the operation before that
  mergeLog,    \* history: merge_with calls made by the last operation
  opCount,     \* number of operations applied so far
  localFile,   \* output/clusters.pickle: [exists, data]
  drive,       \* the remote mirror of clusters.pickle: [exists, data]
  imported,    \* what the last from_row call returned or raised: [raises, kind, value]
  upc,         \* _get_usa_tracking_pos_prices: "idle", "gather", "returned", "raised"
  known,       \* its argument known_trackings: a set of tracking tuples
  entries,     \* all_entries: the listing the remote API answered
  tasks,       \* the lookup coroutines handed to asyncio.gather: [tn, at]
  prices,      \* tracking_tuples_to_prices
  pos_to_prices,  \* pos_to_prices
  writes,      \* history: item assignments to tracking_tuples_to_prices: [task, key]
  fop,         \* the retrying call in progress: "none", "fetch", "upload"
  fpc,         \* its position: "idle", "loop", "returned", "failed"
  fargs,       \* its arguments
  fi,          \* iterations of its for loop completed
  last_exc,    \* last_exc / last_ex
  calls,       \* history: arguments of every attempt made
  raised,      \* history: the exception every failed attempt raised
  fout,        \* what the call returned, or the exception it raised
  archives     \* the ArchiveManager's store: archive group -> [has, po, t]

engineVars == <<clusters, shared, nextId, prev, prevShared, lastOp, prevOp, lastArg, prevArg,
               mergeLog, opCount, localFile, drive, imported>>

usaVars == <<upc, known, entries, tasks, prices, pos_to_prices, writes>>

orchVars == <<fop, fpc, fargs, fi, last_exc, calls, raised, fout, archives>>

vars == <<engineVars, usaVars, orchVars>>

----------------------------------------------------------------------------
(* Bounds and input domains *)

MaxLen == 3        \* longest input collection
MaxOps == 2        \* engine operations applied to one input
MaxStored == 2     \* longest collection found in a store at start
MaxEntries == 3    \* longest listing of the usa API

TrackingNumbers == {"t1", "t2"}
OrderIds == {"o1", "o2"}
PurchaseOrders == {"p1", "p2"}
TrackingGroups == {"a", "b"}
ShipDates == {0, 1}

TrackingInputs ==
  [tracking_number : TrackingNumbers, group : TrackingGroups,
   order_ids : SUBSET OrderIds, ship_date : ShipDates, to_email : {"e1"}]

Batches == {<< >>} \cup {<<t>> : t \in TrackingInputs}

Max(a, b) == IF a >= b THEN a ELSE b

\* all sequences over S of length 0..n
SeqsUpTo(S, n) == UNION {[1..k -> S] : k \in 0..n}

----------------------------------------------------------------------------
(* Cluster *)

\* Cluster.__init__: _initiate(set(), set(), group, 0, 0, '0', set(), 0.0)
\* leaves to_email, notes, manual_override and non_reimbursed_trackings to
\* the defaults of _initiate.
NewCluster(id, group) ==
  [id |-> id, orders |-> {}, trackings |-> {}, group |-> group,
   expected_cost |-> 0, tracked_cost |-> 0, last_ship_date |-> 0,
   purchase_orders |-> {}, adjustment |-> 0, to_email |-> "",
   notes |-> << >>, manual_override |-> FALSE,
   nrt_ref |-> "default", non_reimbursed_trackings |-> {}]

\* value of cluster.non_reimbursed_trackings
NRT(c, sh) ==
  IF c.nrt_ref = "own" THEN c.non_reimbursed_trackings ELSE sh[c.nrt_ref]

\* variant: the monetary fields of other are not added
merge_with_keep_costs(self, other, sh) ==
  LET onrt == NRT(other, sh)
  IN [c |-> [self EXCEPT
               !.orders = self.orders \cup other.orders,
               !.trackings = self.trackings \cup other.trackings,
               !.last_ship_date = Max(self.last_ship_date, other.last_ship_date),
               !.purchase_orders = self.purchase_orders \cup other.purchase_orders,
               !.notes = IF self.notes # << >> /\ other.notes # << >>
                           THEN self.notes \o other.notes
                         ELSE IF other.notes # << >> THEN other.notes
                         ELSE self.notes,
               !.manual_override = self.manual_override /\ other.manual_override,
               !.non_reimbursed_trackings =
                   IF self.nrt_ref = "own"
                     THEN self.non_reimbursed_trackings \cup onrt
                   ELSE self.non_reimbursed_trackings],
      sh |-> IF self.nrt_ref = "own" THEN sh
             ELSE [sh EXCEPT ![self.nrt_ref] = sh[self.nrt_ref] \cup onrt]]

\* variant: manual_override of the result is set when either operand has it
merge_with_any_override(self, other, sh) ==
  LET onrt == NRT(other, sh)
  IN [c |-> [self EXCEPT
               !.orders = self.orders \cup other.orders,
               !.trackings = self.trackings \cup other.trackings,
               !.expected_cost = self.expected_cost + other.expected_cost,
               !.tracked_cost = self.tracked_cost + other.tracked_cost,
               !.last_ship_date = Max(self.last_ship_date, other.last_ship_date),
               !.purchase_orders = self.purchase_orders \cup other.purchase_orders,
               !.adjustment = self.adjustment + other.adjustment,
               !.notes = IF self.notes # << >> /\ other.notes # << >>
                           THEN self.notes \o other.notes
                         ELSE IF other.notes # << >> THEN other.notes
                         ELSE self.notes,
               !.manual_override = self.manual_override \/ other.manual_override,
               !.non_reimbursed_trackings =
                   IF self.nrt_ref = "own"
                     THEN self.non_reimbursed_trackings \cup onrt
                   ELSE self.non_reimbursed_trackings],
      sh |-> IF self.nrt_ref = "own" THEN sh
             ELSE [sh EXCEPT ![self.nrt_ref] = sh[self.nrt_ref] \cup onrt]]

\* variant: last_ship_date of the result is that of other
merge_with_other_date(self, other, sh) ==
  LET onrt == NRT(other, sh)
  IN [c |-> [self EXCEPT
               !.orders = self.orders \cup other.orders,
               !.trackings = self.trackings \cup other.trackings,
               !.expected_cost = self.expected_cost + other.expected_cost,
               !.tracked_cost = self.tracked_cost + other.tracked_cost,
               !.last_ship_date = other.last_ship_date,
               !.purchase_orders = self.purchase_orders \cup other.purchase_orders,
               !.adjustment = self.adjustment + other.adjustment,
               !.notes = IF self.notes # << >> /\ other.notes # << >>
                           THEN self.notes \o other.notes
                         ELSE IF other.notes # << >> THEN other.notes
                         ELSE self.notes,
               !.manual_override = self.manual_override /\ other.manual_override,
               !.non_reimbursed_trackings =
                   IF self.nrt_ref = "own"
                     THEN self.non_reimbursed_trackings \cup onrt
                   ELSE self.non_reimbursed_trackings],
      sh |-> IF self.nrt_ref = "own" THEN sh
             ELSE [sh EXCEPT ![self.nrt_ref] = sh[self.nrt_ref] \cup onrt]]

\* variant: the monetary fields of the result are those of other
merge_with_overwrite_costs(self, other, sh) ==
  LET onrt == NRT(other, sh)
  IN [c |-> [self EXCEPT
               !.orders = self.orders \cup other.orders,
               !.trackings = self.trackings \cup other.trackings,
               !.expected_cost = other.expected_cost,
               !.tracked_cost = other.tracked_cost,
               !.last_ship_date = Max(self.last_ship_date, other.last_ship_date),
               !.purchase_orders = self.purchase_orders \cup other.purchase_orders,
               !.adjustment = other.adjustment,
               !.notes = IF self.notes # << >> /\ other.notes # << >>
                           THEN self.notes \o other.notes
                         ELSE IF other.notes # << >> THEN other.notes
                         ELSE self.notes,
               !.manual_override = self.manual_override /\ other.manual_override,
               !.non_reimbursed_trackings =
                   IF self.nrt_ref = "own"
                     THEN self.non_reimbursed_trackings \cup onrt
                   ELSE self.non_reimbursed_trackings],
      sh |-> IF self.nrt_ref = "own" THEN sh
             ELSE [sh EXCEPT ![self.nrt_ref] = sh[self.nrt_ref] \cup onrt]]

\* Cluster.merge_with(other); returns the new self and the shared sets
merge_with(self, other, sh) ==
  LET onrt == NRT(other, sh)
  IN [c |-> [self EXCEPT
               !.orders = self.orders \cup other.orders,
               !.trackings = self.trackings \cup other.trackings,
               !.expected_cost = self.expected_cost + other.expected_cost,
               !.tracked_cost = self.tracked_cost + other.tracked_cost,
               !.last_ship_date = Max(self.last_ship_date, other.last_ship_date),
               !.purchase_orders = self.purchase_orders \cup other.purchase_orders,
               !.adjustment = self.adjustment + other.adjustment,
               !.notes = IF self.notes # << >> /\ other.notes # << >>
                           THEN self.notes \o other.notes
                         ELSE IF other.notes # << >> THEN other.notes
                         ELSE self.notes,
               !.manual_override = self.manual_override /\ other.manual_override,
               !.non_reimbursed_trackings =
                   IF self.nrt_ref = "own"
                     THEN self.non_reimbursed_trackings \cup onrt
                   ELSE self.non_reimbursed_trackings],
      sh |-> IF self.nrt_ref = "own" THEN sh
             ELSE [sh EXCEPT ![self.nrt_ref] = sh[self.nrt_ref] \cup onrt]]

----------------------------------------------------------------------------
(* dedupe_clusters *)

\* variant: a kept cluster does not claim its trackings
dedupe_step_no_claim(st, cluster) ==
  IF cluster.group = "" THEN st
  ELSE IF cluster.trackings \cap st.seen = {}
    THEN [result |-> Append(st.result, cluster), seen |-> st.seen]
  ELSE st

\* variant: seen is overwritten with the trackings of the cluster at hand
\* ("seen_tracking_ids = set(cluster.trackings)" after the test)
dedupe_step_last_only(st, cluster) ==
  IF cluster.group = "" THEN st
  ELSE IF cluster.trackings \cap st.seen = {}
    THEN [result |-> Append(st.result, cluster), seen |-> cluster.trackings]
  ELSE [st EXCEPT !.seen = cluster.trackings]
\* variant: a cluster is dropped only when every tracking of it is claimed
dedupe_step_all_claimed(st, cluster) ==
  IF cluster.group = "" THEN st
  ELSE IF ~(cluster.trackings \subseteq st.seen)
    THEN [result |-> Append(st.result, cluster),
          seen |-> st.seen \cup cluster.trackings]
  ELSE st

\* variant: a cluster that overlaps kept ones replaces them
dedupe_step_later_wins(st, cluster) ==
  IF cluster.group = "" THEN st
  ELSE LET Apart(c) == c.trackings \cap cluster.trackings = {}
       IN [result |-> Append(SelectSeq(st.result, Apart), cluster),
           seen |-> st.seen \cup cluster.trackings]

\* one iteration of the loop of dedupe_clusters; st = [result, seen]
dedupe_step(st, cluster) ==
  IF cluster.group = "" THEN st
  ELSE IF cluster.trackings \cap st.seen = {}
    THEN [result |-> Append(st.result, cluster),
          seen |-> st.seen \cup cluster.trackings]
  ELSE st

RECURSIVE dedupe_loop(_, _)
dedupe_loop(st, cs) ==
  IF cs = << >> THEN st ELSE dedupe_loop(dedupe_step(st, Head(cs)), Tail(cs))

dedupe_clusters(cs) == dedupe_loop([result |-> << >>, seen |-> {}], cs).result

----------------------------------------------------------------------------
(* update_clusters *)

\* variant: the group of the cluster is not compared
find_cluster_any_group(all_clusters, tracking) ==
  LET hits == {i \in 1..Len(all_clusters) :
                 all_clusters[i].orders \cap tracking.order_ids # {}}
  IN IF hits = {} THEN 0 ELSE CHOOSE i \in hits : \A j \in hits : i <= j

\* find_cluster: index of the first cluster of the tracking's group whose
\* orders intersect the tracking's order ids, 0 for None
find_cluster(all_clusters, tracking) ==
  LET hits == {i \in 1..Len(all_clusters) :
                 /\ all_clusters[i].group = tracking.group
                 /\ all_clusters[i].orders \cap tracking.order_ids # {}}
  IN IF hits = {} THEN 0 ELSE CHOOSE i \in hits : \A j \in hits : i <= j

\* body of the loop of update_clusters for one tracking; st = [cl, nid]
update_one(st, tracking) ==
  LET found == find_cluster(st.cl, tracking)
      all == IF found = 0 THEN Append(st.cl, NewCluster(st.nid, tracking.group))
             ELSE st.cl
      k == IF found = 0 THEN Len(all) ELSE found
      c == all[k]
  IN [cl |-> [all EXCEPT ![k] =
                [c EXCEPT !.orders = c.orders \cup tracking.order_ids,
                          !.trackings = c.trackings \cup {tracking.tracking_number},
                          !.last_ship_date = Max(c.last_ship_date, tracking.ship_date),
                          !.to_email = tracking.to_email]],
      nid |-> IF found = 0 THEN st.nid + 1 ELSE st.nid]

RECURSIVE update_clusters(_, _)
update_clusters(st, trackings) ==
  IF trackings = << >> THEN st
  ELSE update_clusters(update_one(st, Head(trackings)), Tail(trackings))

----------------------------------------------------------------------------
(* merge_by_purchase_orders *)

\* variant: a candidate matches only when all its purchase orders are the
\* cluster's (subset test instead of intersection)
find_by_purchase_orders_subset(cluster, all_clusters) ==
  IF cluster.purchase_orders = {} THEN 0
  ELSE LET hits == {i \in 1..Len(all_clusters) :
                      /\ all_clusters[i].group = cluster.group
                      /\ all_clusters[i].purchase_orders
                           \subseteq cluster.purchase_orders}
       IN IF hits = {} THEN 0 ELSE CHOOSE i \in hits : \A j \in hits : i <= j

\* variant: the group of the candidate is not compared
find_by_purchase_orders_any_group(cluster, all_clusters) ==
  IF cluster.purchase_orders = {} THEN 0
  ELSE LET hits == {i \in 1..Len(all_clusters) :
                      all_clusters[i].purchase_orders
                        \cap cluster.purchase_orders # {}}
       IN IF hits = {} THEN 0 ELSE CHOOSE i \in hits : \A j \in hits : i <= j

\* find_by_purchase_orders: index of the first candidate of the cluster's
\* group sharing a purchase order, 0 for None
find_by_purchase_orders(cluster, all_clusters) ==
  IF cluster.purchase_orders = {} THEN 0
  ELSE LET hits == {i \in 1..Len(all_clusters) :
                      /\ all_clusters[i].group = cluster.group
                      /\ all_clusters[i].purchase_orders
                           \cap cluster.purchase_orders # {}}
       IN IF hits = {} THEN 0 ELSE CHOOSE i \in hits : \A j \in hits : i <= j

\* variant: the merged cluster is also kept as a cluster of its own
merge_step_keeps_merged(st, cluster) ==
  LET to_merge == find_by_purchase_orders(cluster, st.result)
  IN IF to_merge # 0
       THEN LET m == merge_with(st.result[to_merge], cluster, st.sh)
            IN [result |-> Append([st.result EXCEPT ![to_merge] = m.c], cluster),
                sh |-> m.sh,
                log |-> Append(st.log,
                          [into |-> st.result[to_merge].id, from |-> cluster.id,
                           into_group |-> st.result[to_merge].group,
                           from_group |-> cluster.group,
                           into_override |-> st.result[to_merge].manual_override,
                           from_override |-> cluster.manual_override,
                           result_override |-> m.c.manual_override])]
     ELSE [st EXCEPT !.result = Append(st.result, cluster)]

\* one iteration of the loop of run_merge_iteration; st = [result, sh, log]
merge_step(st, cluster) ==
  LET to_merge == find_by_purchase_orders(cluster, st.result)
  IN IF to_merge # 0
       THEN LET m == merge_with(st.result[to_merge], cluster, st.sh)
            IN [result |-> [st.result EXCEPT ![to_merge] = m.c],
                sh |-> m.sh,
                log |-> Append(st.log,
                          [into |-> st.result[to_merge].id, from |-> cluster.id,
                           into_group |-> st.result[to_merge].group,
                           from_group |-> cluster.group,
                           into_override |-> st.result[to_merge].manual_override,
                           from_override |-> cluster.manual_override,
                           result_override |-> m.c.manual_override])]
     ELSE [st EXCEPT !.result = Append(st.result, cluster)]

RECURSIVE merge_loop(_, _)
merge_loop(st, cs) ==
  IF cs = << >> THEN st ELSE merge_loop(merge_step(st, Head(cs)), Tail(cs))

run_merge_iteration(cs, sh, log) ==
  merge_loop([result |-> << >>, sh |-> sh, log |-> log], cs)

\* variant: one more pass is run after the pass that changed nothing
RECURSIVE merge_by_purchase_orders_extra_pass(_)
merge_by_purchase_orders_extra_pass(st) ==
  LET r == run_merge_iteration(st.cl, st.sh, st.log)
      nx == [cl |-> r.result, sh |-> r.sh, log |-> r.log, passes |-> st.passes + 1]
  IN IF Len(r.result) = Len(st.cl)
       THEN LET q == run_merge_iteration(nx.cl, nx.sh, nx.log)
            IN [cl |-> q.result, sh |-> q.sh, log |-> q.log, passes |-> nx.passes + 1]
     ELSE merge_by_purchase_orders_extra_pass(nx)

\* variant: a single pass, no fixpoint loop
merge_by_purchase_orders_single_pass(st) ==
  LET r == run_merge_iteration(st.cl, st.sh, st.log)
  IN [cl |-> r.result, sh |-> r.sh, log |-> r.log, passes |-> st.passes + 1]

\* st = [cl, sh, log, passes]
RECURSIVE merge_by_purchase_orders(_)
merge_by_purchase_orders(st) ==
  LET r == run_merge_iteration(st.cl, st.sh, st.log)
      nx == [cl |-> r.result, sh |-> r.sh, log |-> r.log, passes |-> st.passes + 1]
  IN IF Len(r.result) = Len(st.cl) THEN nx ELSE merge_by_purchase_orders(nx)

----------------------------------------------------------------------------
(* Engine operations on the caller's collection *)

Record(op, arg, log) ==
  /\ prev' = clusters
  /\ prevShared' = shared
  /\ prevOp' = lastOp
  /\ lastOp' = op
  /\ lastArg' = arg
  /\ prevArg' = lastArg
  /\ mergeLog' = log
  /\ UNCHANGED <<usaVars, orchVars, imported>>

UpdateClusters(batch) ==
  /\ LET r == update_clusters([cl |-> clusters, nid |-> nextId], batch)
     IN /\ clusters' = r.cl
        /\ nextId' = r.nid
  /\ Record("update", batch, << >>)
  /\ UNCHANGED <<shared, localFile, drive>>

MergeByPurchaseOrders ==
  /\ LET r == merge_by_purchase_orders(
                [cl |-> clusters, sh |-> shared, log |-> << >>, passes |-> 0])
     IN /\ clusters' = r.cl
        /\ shared' = r.sh
        /\ Record("merge", r.passes, r.log)
  /\ UNCHANGED <<nextId, localFile, drive>>

DedupeClusters ==
  /\ clusters' = dedupe_clusters(clusters)
  /\ Record("dedupe", << >>, << >>)
  /\ UNCHANGED <<shared, nextId, localFile, drive>>

\* a.merge_with(b) on two clusters of the collection, a = clusters[i],
\* b = clusters[j]
MergeWith(i, j) ==
  /\ i \in 1..Len(clusters)
  /\ j \in 1..Len(clusters)
  /\ i # j
  /\ LET m == merge_with(clusters[i], clusters[j], shared)
     IN /\ clusters' = [clusters EXCEPT ![i] = m.c]
        /\ shared' = m.sh
  /\ Record("merge_with", <<i, j>>, << >>)
  /\ UNCHANGED <<nextId, localFile, drive>>

----------------------------------------------------------------------------
(* Cluster store: write_clusters, get_existing_clusters *)

Absent == [exists |-> FALSE, data |-> << >>]

\* pickle.dump of a list of clusters: a copy by value; a set that is not
\* private to its cluster is written with its current content
Pickle(cs, sh) ==
  [exists |-> TRUE,
   data |-> [i \in 1..Len(cs) |->
               [cs[i] EXCEPT !.nrt_ref = "own",
                             !.non_reimbursed_trackings = NRT(cs[i], sh)]]]

\* pickle.load: new objects, numbered from nid
Unpickle(data, nid) == [i \in 1..Len(data) |-> [data[i] EXCEPT !.id = nid + i - 1]]

\* ObjectsToDrive.save: uploads the local file to the mirror when the
\* mirror is configured and reachable (saves), else leaves it alone
ObjectsToDriveSave(saves, file, mirror) == IF saves THEN file ELSE mirror

\* ObjectsToDrive.load: the mirrored object, or a null result when the
\* mirror is not configured, not reachable (loads = FALSE) or has no file
ObjectsToDriveLoad(loads, mirror) == IF loads /\ mirror.exists THEN mirror ELSE Absent

\* Python truth value of the result of ObjectsToDrive.load: None and the
\* empty list are false
Truthy(loaded) == loaded.exists /\ loaded.data # << >>

\* what write_clusters dumps
write_clusters_dump(cs, sh) == Pickle(dedupe_clusters(cs), sh)

\* what get_existing_clusters returns: [from, data]
get_existing_clusters(from_drive, file) ==
  IF Truthy(from_drive) THEN [from |-> "drive", data |-> from_drive.data]
  ELSE IF ~file.exists THEN [from |-> "none", data |-> << >>]
  ELSE [from |-> "local", data |-> dedupe_clusters(file.data)]

WriteClusters(saves) ==
  /\ localFile' = write_clusters_dump(clusters, shared)
  /\ drive' = ObjectsToDriveSave(saves, localFile', drive)
  /\ Record("write", saves, << >>)
  /\ UNCHANGED <<clusters, shared, nextId>>

GetExistingClusters(loads) ==
  /\ LET r == get_existing_clusters(ObjectsToDriveLoad(loads, drive), localFile)
     IN /\ clusters' = Unpickle(r.data, nextId)
        /\ nextId' = nextId + Len(r.data)
        /\ Record("load", r.from, << >>)
  /\ UNCHANGED <<shared, localFile, drive>>

----------------------------------------------------------------------------
(* Input collections *)

\* a cluster as the rest of the program hands it to the engine: the sets
\* and the group are the inputs, the other fields depend on the position
TrackingAt == <<"t1", "t2", "t3", "t4", "t5">>
OrderAt == <<"o1", "o2", "o3", "o4", "o5">>

InputCluster(i, group, orders, trackings, pos) ==
  [id |-> i, orders |-> orders, trackings |-> trackings, group |-> group,
   expected_cost |-> i, tracked_cost |-> i * i, last_ship_date |-> i,
   purchase_orders |-> pos, adjustment |-> 0 - i, to_email |-> "e1",
   notes |-> IF i = 2 THEN << >> ELSE <<i>>,
   manual_override |-> (i # 2),
   nrt_ref |-> "own", non_reimbursed_trackings |-> {}]

MergeShapes == [group : {"a", "b"}, pos : SUBSET PurchaseOrders]

MergeInputs ==
  {[i \in 1..Len(s) |->
      InputCluster(i, s[i].group, {OrderAt[i]}, {TrackingAt[i]}, s[i].pos)] : s \in SeqsUpTo(MergeShapes, MaxLen)}

NoException == [attempt |-> 0, kind |-> "None"]

NoImport == [raises |-> FALSE, kind |-> "None", value |-> << >>]

NoArchive == [has |-> FALSE, po |-> << >>, t |-> << >>]

InitOrchIdle ==
  /\ fop = "none"
  /\ fpc = "idle"
  /\ fargs = << >>
  /\ fi = 0
  /\ last_exc = NoException
  /\ calls = << >>
  /\ raised = << >>
  /\ fout = << >>
  /\ archives = [a \in {"x1"} |-> NoArchive]

InitUsaIdle ==
  /\ InitOrchIdle
  /\ upc = "idle"
  /\ known = {}
  /\ entries = << >>
  /\ tasks = << >>
  /\ prices = << >>
  /\ pos_to_prices = << >>
  /\ writes = {}

InitHistory ==
  /\ InitUsaIdle
  /\ shared = [default |-> {}]
  /\ nextId = Len(clusters) + 1
  /\ prev = << >>
  /\ prevShared = [default |-> {}]
  /\ lastOp = "init"
  /\ prevOp = "init"
  /\ lastArg = << >>
  /\ prevArg = << >>
  /\ mergeLog = << >>
  /\ opCount = 0
  /\ imported = NoImport

\* one more operation, at most MaxOps of them
Count == opCount < MaxOps /\ opCount' = opCount + 1

----------------------------------------------------------------------------
(* Specification of Cluster.merge_with on two clusters a and b *)

ExpectedCosts == {5, 10}
Adjustments == {1, 0 - 2}

MergeWithShapes ==
  [expected_cost : ExpectedCosts, adjustment : Adjustments,
   manual_override : BOOLEAN, nrt : {"default", "own"}]

\* a (position 1) and b (position 2): the same group, one purchase order
\* each, costs, adjustment and override as drawn; a cluster with its own
\* non_reimbursed_trackings has its tracking in it
MergeWithCluster(i, s) ==
  [InputCluster(i, "a", {OrderAt[i]}, {TrackingAt[i]}, {"p1"}) EXCEPT
     !.expected_cost = s.expected_cost,
     !.adjustment = s.adjustment,
     !.manual_override = s.manual_override,
     !.nrt_ref = s.nrt,
     !.non_reimbursed_trackings = IF s.nrt = "own" THEN {TrackingAt[i]} ELSE {}]

MergeWithInputs ==
  {<<MergeWithCluster(1, a), MergeWithCluster(2, b)>> :
      a \in MergeWithShapes, b \in MergeWithShapes}

InitMergeWith ==
  /\ clusters \in MergeWithInputs
  /\ InitHistory
  /\ localFile = Absent
  /\ drive = Absent

NextMergeWith == Count /\ \E i, j \in 1..2 : MergeWith(i, j)

SpecMergeWith == InitMergeWith /\ [][NextMergeWith]_vars

----------------------------------------------------------------------------
(* Specification of merge_by_purchase_orders on clusters that differ in    *)
(* their purchase orders, their override flag and the way their            *)
(* non_reimbursed_trackings set was constructed                            *)

EmailAt == <<"e1", "e2", "e3", "e4", "e5">>

MergeFieldShapes ==
  [pos : SUBSET PurchaseOrders, manual_override : BOOLEAN, nrt : {"default", "own"}]

\* nrt = "default": built by Cluster(group), the set is the default of
\* _initiate; nrt = "own": built by from_row, with its tracking in the set
MergeFieldCluster(i, s) ==
  [InputCluster(i, "a", {OrderAt[i]}, {TrackingAt[i]}, s.pos) EXCEPT
     !.to_email = EmailAt[i],
     !.manual_override = s.manual_override,
     !.nrt_ref = s.nrt,
     !.non_reimbursed_trackings = IF s.nrt = "own" THEN {TrackingAt[i]} ELSE {}]

MergeFieldInputs ==
  {[i \in 1..Len(s) |-> MergeFieldCluster(i, s[i])] :
      s \in SeqsUpTo(MergeFieldShapes, MaxLen)}

InitMergeFields ==
  /\ clusters \in MergeFieldInputs
  /\ InitHistory
  /\ localFile = Absent
  /\ drive = Absent

NextMergeFields == Count /\ MergeByPurchaseOrders

SpecMergeFields == InitMergeFields /\ [][NextMergeFields]_vars

----------------------------------------------------------------------------
(* Specification of merge_by_purchase_orders on bounded inputs *)

InitMerge ==
  /\ clusters \in MergeInputs
  /\ InitHistory
  /\ localFile = Absent
  /\ drive = Absent

NextMerge == Count /\ MergeByPurchaseOrders

SpecMerge == InitMerge /\ [][NextMerge]_vars

----------------------------------------------------------------------------
(* Specification of dedupe_clusters and of the cluster store: a collection *)
(* handed to the engine with no stored file, or a fresh process that finds *)
(* files written by an earlier run, possibly of older code                 *)

DedupeShapes == [group : {"", "a"}, trackings : SUBSET TrackingNumbers]

DedupeInputsUpTo(n) ==
  {[i \in 1..Len(s) |->
      InputCluster(i, s[i].group, {OrderAt[i]}, s[i].trackings, {})]
     : s \in SeqsUpTo(DedupeShapes, n)}

StoredShapes == [group : {"", "a"}, trackings : {{"t1"}, {"t2"}}]

StoredFiles ==
  {Absent} \cup
  {[exists |-> TRUE,
    data |-> [i \in 1..Len(s) |->
                InputCluster(i, s[i].group, {OrderAt[i]}, s[i].trackings, {})]]
     : s \in SeqsUpTo(StoredShapes, MaxStored)}

InitStore ==
  /\ \/ /\ clusters \in DedupeInputsUpTo(MaxLen)
        /\ localFile = Absent
        /\ drive = Absent
     \/ /\ clusters = << >>
        /\ localFile \in StoredFiles
        /\ drive \in StoredFiles
  /\ InitHistory

NextStore ==
  \/ Count /\ DedupeClusters
  \/ Count /\ \E saves \in BOOLEAN : WriteClusters(saves)
  \/ Count /\ \E loads \in BOOLEAN : GetExistingClusters(loads)

SpecStore == InitStore /\ [][NextStore]_vars

----------------------------------------------------------------------------
(* Specification of one batch pass of the engine over a collection:        *)
(* update_clusters, then merge_by_purchase_orders, then dedupe_clusters,   *)
(* each of them optional; opCount is the stage reached                     *)

EngineShapes ==
  [group : {"a", "b"}, orders : {{"o1"}, {"o2"}}, pos : {{}, {"p1"}}]

EngineInputs ==
  {[i \in 1..Len(s) |->
      InputCluster(i, s[i].group, s[i].orders, {TrackingAt[i]}, s[i].pos)]
     : s \in SeqsUpTo(EngineShapes, MaxLen)}

InitEngine ==
  /\ clusters \in EngineInputs
  /\ InitHistory
  /\ localFile = Absent
  /\ drive = Absent

NextEngine ==
  \/ opCount = 0 /\ opCount' = 1 /\ \E batch \in Batches : UpdateClusters(batch)
  \/ opCount <= 1 /\ opCount' = 2 /\ MergeByPurchaseOrders
  \/ opCount <= 2 /\ opCount' = 3 /\ DedupeClusters

SpecEngine == InitEngine /\ [][NextEngine]_vars

----------------------------------------------------------------------------
(* The concurrent adapter: _get_usa_tracking_pos_prices                    *)

UsaTrackings == {"t1", "t2", "t3"}

\* what the remote API holds: the price of the box of a tracking, the
\* purchase order of a tracking and its amount
RemotePrice == [t \in UsaTrackings |-> IF t = "t1" THEN 10 ELSE IF t = "t2" THEN 20 ELSE 30]
RemotePurchase == [t \in UsaTrackings |-> IF t = "t3" THEN "p2" ELSE "p1"]
RemoteAmount == [t \in UsaTrackings |-> IF t = "t1" THEN 1 ELSE IF t = "t2" THEN 2 ELSE 3]

Listings ==
  {[i \in 1..Len(s) |->
      [tracking_number |-> s[i], purchase_id |-> RemotePurchase[s[i]],
       amount |-> RemoteAmount[s[i]]]] : s \in SeqsUpTo(UsaTrackings, MaxEntries)}

KnownSets == {{}, {<<"t2">>}, {<<"t1">>, <<"t3">>}, {<<"t1", "t2">>}}

\* variant: the tracking numbers of the listing, unfiltered (the string
\* itself is looked up among the tuples and never found)
usa_tracking_numbers_unfiltered(all_entries, known_trackings) ==
  [i \in 1..Len(all_entries) |-> all_entries[i].tracking_number]

\* lines 239-240: the tracking numbers of the listing whose 1-tuple is not
\* in known_trackings
usa_tracking_numbers(all_entries, known_trackings) ==
  LET Keep(t) == <<t>> \notin known_trackings
  IN SelectSeq([i \in 1..Len(all_entries) |-> all_entries[i].tracking_number], Keep)

\* lines 237-238: pos_to_prices[entry['purchase_id']] = amount, in order
RECURSIVE usa_pos_to_prices(_, _)
usa_pos_to_prices(m, all_entries) ==
  IF all_entries = << >> THEN m
  ELSE usa_pos_to_prices(
         (Head(all_entries).purchase_id :> Head(all_entries).amount) @@ m,
         Tail(all_entries))

\* the login or the listing request raises: the exception leaves
\* _get_usa_tracking_pos_prices before any lookup is created
UsaListingRaises ==
  /\ upc = "idle"
  /\ upc' = "raised"
  /\ UNCHANGED <<known, entries, tasks, prices, pos_to_prices, writes, engineVars, orchVars>>

\* lines 234-247 up to the await of gather: the listing is fetched, the
\* known keys are filtered out and one coroutine per remaining tracking
\* number is created; each runs up to its first await (the request)
UsaStartGather(all_entries) ==
  /\ upc = "idle"
  /\ entries' = all_entries
  /\ pos_to_prices' = usa_pos_to_prices(<< >>, all_entries)
  /\ LET tns == usa_tracking_numbers(all_entries, known)
     IN tasks' = [k \in 1..Len(tns) |-> [tn |-> tns[k], at |-> "request"]]
  /\ prices' = << >>
  /\ writes' = {}
  /\ upc' = "gather"
  /\ UNCHANGED <<known, engineVars, orchVars>>

\* _retrieve_usa_tracking_price, after "await session.request": the
\* response arrives and raise_for_status passes (ok), or the request or
\* raise_for_status raises and the except branch prints
LookupResponse(k, ok) ==
  /\ upc = "gather"
  /\ k \in 1..Len(tasks)
  /\ tasks[k].at = "request"
  /\ tasks' = [tasks EXCEPT ![k].at = IF ok THEN "json" ELSE "failed"]
  /\ UNCHANGED <<upc, known, entries, prices, pos_to_prices, writes, engineVars, orchVars>>

\* variant: the lookup stores a cost although the body or the parse raised
LookupJsonStoresAnyway(k, ok) ==
  /\ upc = "gather"
  /\ k \in 1..Len(tasks)
  /\ tasks[k].at = "json"
  /\ tasks' = [tasks EXCEPT ![k].at = IF ok THEN "done" ELSE "failed"]
  /\ prices' = (<<tasks[k].tn>> :> (IF ok THEN RemotePrice[tasks[k].tn] ELSE 0)) @@ prices
  /\ writes' = writes \cup {[task |-> k, key |-> <<tasks[k].tn>>]}
  /\ UNCHANGED <<upc, known, entries, pos_to_prices, engineVars, orchVars>>

\* _retrieve_usa_tracking_price, after "await response.json()": the cost is
\* parsed and stored under the 1-tuple (ok), or the body or the parse
\* raises and the except branch prints
LookupJson(k, ok) ==
  /\ upc = "gather"
  /\ k \in 1..Len(tasks)
  /\ tasks[k].at = "json"
  /\ tasks' = [tasks EXCEPT ![k].at = IF ok THEN "done" ELSE "failed"]
  /\ prices' = IF ok THEN (<<tasks[k].tn>> :> RemotePrice[tasks[k].tn]) @@ prices
                ELSE prices
  /\ writes' = IF ok THEN writes \cup {[task |-> k, key |-> <<tasks[k].tn>>]}
                ELSE writes
  /\ UNCHANGED <<upc, known, entries, pos_to_prices, engineVars, orchVars>>

\* variant: gather returns as soon as one coroutine has failed
UsaReturnOnFailure ==
  /\ upc = "gather"
  /\ \/ \A k \in 1..Len(tasks) : tasks[k].at \in {"done", "failed"}
     \/ \E k \in 1..Len(tasks) : tasks[k].at = "failed"
  /\ upc' = "returned"
  /\ UNCHANGED <<known, entries, tasks, prices, pos_to_prices, writes, engineVars, orchVars>>

\* "await asyncio.gather(*tasks)" completes when every coroutine has
\* returned; the two maps are returned
UsaReturn ==
  /\ upc = "gather"
  /\ \A k \in 1..Len(tasks) : tasks[k].at \in {"done", "failed"}
  /\ upc' = "returned"
  /\ UNCHANGED <<known, entries, tasks, prices, pos_to_prices, writes, engineVars, orchVars>>

InitUsa ==
  /\ upc = "idle"
  /\ known \in KnownSets
  /\ entries = << >>
  /\ tasks = << >>
  /\ prices = << >>
  /\ pos_to_prices = << >>
  /\ writes = {}
  /\ clusters = << >>
  /\ shared = [default |-> {}]
  /\ nextId = 1
  /\ prev = << >>
  /\ prevShared = [default |-> {}]
  /\ lastOp = "init"
  /\ prevOp = "init"
  /\ lastArg = << >>
  /\ prevArg = << >>
  /\ mergeLog = << >>
  /\ opCount = 0
  /\ imported = NoImport
  /\ localFile = [exists |-> FALSE, data |-> << >>]
  /\ drive = [exists |-> FALSE, data |-> << >>]
  /\ InitOrchIdle

NextUsa ==
  \/ UsaListingRaises
  \/ \E all_entries \in Listings : UsaStartGather(all_entries)
  \/ \E k \in 1..MaxEntries, ok \in BOOLEAN : LookupResponse(k, ok)
  \/ \E k \in 1..MaxEntries, ok \in BOOLEAN : LookupJson(k, ok)
  \/ UsaReturn

SpecUsa == InitUsa /\ [][NextUsa]_vars

\* the event loop resumes every coroutine whose awaited request or body
\* has completed, and every request and body completes (with a response or
\* an error); gather is resumed once all its coroutines have returned
FairUsa ==
  /\ WF_vars(\E k \in 1..MaxEntries, ok \in BOOLEAN : LookupResponse(k, ok))
  /\ WF_vars(\E k \in 1..MaxEntries, ok \in BOOLEAN : LookupJson(k, ok))
  /\ WF_vars(UsaReturn)

SpecUsaFair == InitUsa /\ [][NextUsa]_vars /\ FairUsa

\* the listed tracking numbers
Listed == {entries[i].tracking_number : i \in 1..Len(entries)}

\* C4: when the concurrent adapter returns, the tracking-cost map has an
\* entry for exactly the listed keys that are not in known_trackings and
\* for which a lookup succeeded, whatever subset of lookups failed and
\* in whatever order they completed; a failing lookup removes no other
\* key, and no lookup is issued for a key in known_trackings.
C4_PartialFanOut ==
  upc = "returned" =>
    /\ DOMAIN prices =
         {<<t>> : t \in {u \in Listed :
                          /\ <<u>> \notin known
                          /\ \E k \in 1..Len(tasks) :
                               tasks[k].tn = u /\ tasks[k].at = "done"}}
    /\ \A k \in 1..Len(tasks) : <<tasks[k].tn>> \notin known
    /\ \A t \in Listed :
         <<t>> \notin known => \E k \in 1..Len(tasks) : tasks[k].tn = t
    /\ \A key \in DOMAIN prices : prices[key] = RemotePrice[key[1]]

\* three lookups of three different keys, the 2nd failed, and the result
\* holds the 1st and the 3rd
C4_Witness ==
  /\ upc = "returned"
  /\ Len(tasks) = 3
  /\ tasks[1].at = "done"
  /\ tasks[2].at = "failed"
  /\ tasks[3].at = "done"
  /\ Cardinality({tasks[k].tn : k \in 1..3}) = 3
  /\ DOMAIN prices = {<<tasks[1].tn>>, <<tasks[3].tn>>}

----------------------------------------------------------------------------
(* The cost orchestrator: get_new_tracking_pos_costs_maps_with_retry,      *)
(* get_new_tracking_pos_costs_maps, and the upload loop _upload_to_group   *)

FetchAttempts == 5
MAX_UPLOAD_ATTEMPTS == 10

\* config['melulPortals'] and config['groups'][g]['archives']
MelulPortalGroups == {"m1", "m2"}
ArchivesOf(group) == IF group = "m1" THEN <<"x1">> ELSE << >>

FetchGroups == {"bfmr", "m1", "m2", "usa", "yrcw", "zz"}
UploadGroups == {"bfmr", "m1", "usa", "yrcw", "oaks", "zz"}

\* the groups the dispatch of get_new_tracking_pos_costs_maps knows
KnownFetchGroups == {"bfmr", "usa", "yrcw"} \cup MelulPortalGroups
\* the groups the dispatch of _upload_to_group knows
KnownUploadGroups == {"usa", "yrcw", "bfmr", "oaks"} \cup MelulPortalGroups

ExcKinds == {"Timeout", "Parse"}

\* what one call of a source adapter can do: raise, or return its maps
\* (po: purchase order -> cost, t: tracking tuple -> cost, costs: the
\* tracking -> cost map of _get_bfmr_costs)
AdapterOutcomes ==
  [raises : {TRUE}, kind : ExcKinds, po : {<< >>}, t : {<< >>}, costs : {<< >>}]
  \cup
  {[raises |-> FALSE, kind |-> "None", po |-> << >>, t |-> << >>, costs |-> << >>],
   [raises |-> FALSE, kind |-> "None", po |-> ("p1" :> 10),
    t |-> (<<"t1">> :> 10), costs |-> ("t1" :> 10)]}

StoredArchive == [has |-> TRUE, po |-> ("p9" :> 90), t |-> (<<"t9">> :> 90)]

Raise(kind, arch) == [raises |-> TRUE, kind |-> kind, t |-> << >>, po |-> << >>, arch |-> arch]
Return(t, po, arch) == [raises |-> FALSE, kind |-> "None", t |-> t, po |-> po, arch |-> arch]

\* dict.update: the entries of other replace those of m
DictUpdate(m, other) == other @@ m

\* lines 125-135, the loop over the archives of a portal group; st is the
\* running [raises, kind, t, po, arch].  The call of line 129 passes three
\* of the five required positional arguments of
\* _melul_get_tracking_pos_costs_maps (line 255) and raises TypeError.
RECURSIVE load_archives(_, _)
load_archives(st, names) ==
  IF names = << >> \/ st.raises THEN st
  ELSE LET a == Head(names)
       IN IF ~st.arch[a].has
            THEN Raise("TypeError", st.arch)
          ELSE load_archives(
                 [st EXCEPT !.po = DictUpdate(st.po, st.arch[a].po),
                            !.t = DictUpdate(st.t, st.arch[a].t)],
                 Tail(names))

\* get_new_tracking_pos_costs_maps(group, known_trackings, full), given
\* what the adapter it calls does (live) and the archive store
get_new_tracking_pos_costs_maps(group, live, arch) ==
  IF group = "bfmr"
    THEN IF live.raises THEN Raise(live.kind, arch)
         ELSE Return([k \in {<<x>> : x \in DOMAIN live.costs} |-> live.costs[k[1]]],
                     live.costs, arch)
  ELSE IF group \in MelulPortalGroups
    THEN IF live.raises THEN Raise(live.kind, arch)
         ELSE load_archives(Return(live.t, live.po, arch), ArchivesOf(group))
  ELSE IF group \in {"usa", "yrcw"}
    THEN IF live.raises THEN Raise(live.kind, arch)
         ELSE Return(live.t, live.po, arch)
  ELSE Return(<< >>, << >>, arch)

\* variant of the except branch: the first exception is kept
keep_exception_first(old, e) == IF old = NoException THEN e ELSE old

\* the except branch of both loops: last_exc = e
keep_exception(old, e) == e

FetchStart(group, known_trackings, full) ==
  /\ fpc = "idle"
  /\ fop' = "fetch"
  /\ fpc' = "loop"
  /\ fargs' = [group |-> group, known_trackings |-> known_trackings, full |-> full]
  /\ UNCHANGED <<fi, last_exc, calls, raised, fout, archives, engineVars, usaVars>>

\* variant: the loop goes on after an attempt that did not raise
FetchAttemptGoesOn(live) ==
  /\ fop = "fetch"
  /\ fpc = "loop"
  /\ fi < FetchAttempts
  /\ calls' = Append(calls, fargs)
  /\ LET r == get_new_tracking_pos_costs_maps(fargs.group, live, archives)
         e == [attempt |-> fi + 1, kind |-> r.kind]
     IN /\ archives' = r.arch
        /\ IF r.raises
             THEN /\ last_exc' = keep_exception(last_exc, e)
                  /\ raised' = Append(raised, e)
                  /\ fi' = fi + 1
                  /\ UNCHANGED <<fpc, fout>>
           ELSE /\ fpc' = IF fi + 1 = FetchAttempts THEN "returned" ELSE "loop"
                /\ fout' = [t |-> r.t, po |-> r.po]
                /\ fi' = fi + 1
                /\ UNCHANGED <<last_exc, raised>>
  /\ UNCHANGED <<fop, fargs, engineVars, usaVars>>

\* one iteration of "for i in range(5)": the try and its except branch
FetchAttempt(live) ==
  /\ fop = "fetch"
  /\ fpc = "loop"
  /\ fi < FetchAttempts
  /\ calls' = Append(calls, fargs)
  /\ LET r == get_new_tracking_pos_costs_maps(fargs.group, live, archives)
         e == [attempt |-> fi + 1, kind |-> r.kind]
     IN /\ archives' = r.arch
        /\ IF r.raises
             THEN /\ last_exc' = keep_exception(last_exc, e)
                  /\ raised' = Append(raised, e)
                  /\ fi' = fi + 1
                  /\ UNCHANGED <<fpc, fout>>
           ELSE /\ fpc' = "returned"
                /\ fout' = [t |-> r.t, po |-> r.po]
                /\ UNCHANGED <<last_exc, raised, fi>>
  /\ UNCHANGED <<fop, fargs, engineVars, usaVars>>

\* line 106: raise Exception("Exceeded retry limit", last_exc)
FetchExhausted ==
  /\ fop = "fetch"
  /\ fpc = "loop"
  /\ fi = FetchAttempts
  /\ fpc' = "failed"
  /\ fout' = [msg |-> "Exceeded retry limit", cause |-> last_exc]
  /\ UNCHANGED <<fop, fargs, fi, last_exc, calls, raised, archives, engineVars, usaVars>>

UploadStart(numbers, group) ==
  /\ fpc = "idle"
  /\ fop' = "upload"
  /\ fpc' = "loop"
  /\ fargs' = [numbers |-> numbers, group |-> group]
  /\ UNCHANGED <<fi, last_exc, calls, raised, fout, archives, engineVars, usaVars>>

\* the body of the try of _upload_to_group, given what the uploader of
\* the group does (live): [raises, kind]
upload_dispatch(group, live) ==
  IF group \in KnownUploadGroups
    THEN [raises |-> live.raises, kind |-> live.kind]
  ELSE [raises |-> TRUE, kind |-> "Unknown group"]

\* one iteration of "for attempt in range(MAX_UPLOAD_ATTEMPTS)"
UploadAttempt(live) ==
  /\ fop = "upload"
  /\ fpc = "loop"
  /\ fi < MAX_UPLOAD_ATTEMPTS
  /\ calls' = Append(calls, fargs)
  /\ LET r == upload_dispatch(fargs.group, live)
         e == [attempt |-> fi + 1, kind |-> r.kind]
     IN IF r.raises
          THEN /\ last_exc' = keep_exception(last_exc, e)
               /\ raised' = Append(raised, e)
               /\ fi' = fi + 1
               /\ UNCHANGED <<fpc, fout>>
        ELSE /\ fpc' = "returned"
             /\ fout' = << >>
             /\ UNCHANGED <<last_exc, raised, fi>>
  /\ UNCHANGED <<fop, fargs, archives, engineVars, usaVars>>

\* line 342: raise Exception("Exceeded retry limit") from last_ex
UploadExhausted ==
  /\ fop = "upload"
  /\ fpc = "loop"
  /\ fi = MAX_UPLOAD_ATTEMPTS
  /\ fpc' = "failed"
  /\ fout' = [msg |-> "Exceeded retry limit", cause |-> last_exc]
  /\ UNCHANGED <<fop, fargs, fi, last_exc, calls, raised, archives, engineVars, usaVars>>

InitOrch ==
  /\ fop = "none"
  /\ fpc = "idle"
  /\ fargs = << >>
  /\ fi = 0
  /\ last_exc = NoException
  /\ calls = << >>
  /\ raised = << >>
  /\ fout = << >>
  /\ archives \in [{"x1"} -> {NoArchive, StoredArchive}]
  /\ clusters = << >>
  /\ shared = [default |-> {}]
  /\ nextId = 1
  /\ prev = << >>
  /\ prevShared = [default |-> {}]
  /\ lastOp = "init"
  /\ prevOp = "init"
  /\ lastArg = << >>
  /\ prevArg = << >>
  /\ mergeLog = << >>
  /\ opCount = 0
  /\ imported = NoImport
  /\ localFile = [exists |-> FALSE, data |-> << >>]
  /\ drive = [exists |-> FALSE, data |-> << >>]
  /\ upc = "idle"
  /\ known = {}
  /\ entries = << >>
  /\ tasks = << >>
  /\ prices = << >>
  /\ pos_to_prices = << >>
  /\ writes = {}

NextOrch ==
  \/ \E g \in FetchGroups, k \in KnownSets, full \in BOOLEAN : FetchStart(g, k, full)
  \/ \E live \in AdapterOutcomes : FetchAttempt(live)
  \/ FetchExhausted
  \/ \E g \in UploadGroups : UploadStart(<<"t1">>, g)
  \/ \E live \in AdapterOutcomes : UploadAttempt(live)
  \/ UploadExhausted

SpecOrch == InitOrch /\ [][NextOrch]_vars

\* C3: if every attempt of get_new_tracking_pos_costs_maps_with_retry
\* raises, the adapter dispatch is invoked exactly 5 times and the call then
\* fails with a terminal error whose reported cause is the exception raised
\* by the 5th attempt; the call never fails earlier or otherwise, and after
\* 5 raised attempts it cannot return.
C3_RetryExhaustion ==
  fop = "fetch" =>
    /\ fpc = "failed" =>
         /\ Len(calls) = 5
         /\ Len(raised) = 5
         /\ fout.msg = "Exceeded retry limit"
         /\ fout.cause = raised[5]
         /\ fout.cause.attempt = 5
    /\ Len(raised) = 5 => fpc \in {"loop", "failed"}
    /\ (fpc = "loop" /\ Len(raised) = 5) => (ENABLED FetchExhausted /\ fi = 5)
    /\ Len(calls) <= 5

\* five attempts raised, the first and the last a different error, and the
\* call failed
C3_Witness ==
  /\ fop = "fetch"
  /\ fpc = "failed"
  /\ Len(raised) = 5
  /\ raised[1].kind # raised[5].kind
  /\ raised[4].kind # raised[5].kind

\* C6 (as claimed): a call with an unknown group identifier ends in an
\* error after a single attempt, never in a successful result and never
\* after repeated attempts.
C6_UnknownGroupFailsAtOnce ==
  /\ (fop = "fetch" /\ fargs.group \notin KnownFetchGroups) =>
       /\ fpc # "returned"
       /\ Len(calls) <= 1
  /\ (fop = "upload" /\ fargs.group \notin KnownUploadGroups) =>
       /\ fpc # "returned"
       /\ Len(calls) <= 1

----------------------------------------------------------------------------
(* Properties of update_clusters *)

\* positions of the clusters of cs of the tracking's group whose orders
\* intersect the tracking's order ids
Overlapping(cs, t) ==
  {i \in 1..Len(cs) : cs[i].group = t.group /\ cs[i].orders \cap t.order_ids # {}}

\* C7: update_clusters creates-or-updates.  For a tracking whose order ids
\* intersect the orders of an existing cluster of its group, the number of
\* clusters does not grow and that cluster (the first such cluster in
\* collection order) gains the tracking number and the order ids; for a
\* tracking with no order overlap in its group exactly one new cluster is
\* appended, with the tracking's group and containing the tracking number.
C7_CreatesOrUpdates ==
  (lastOp = "update" /\ Len(lastArg) = 1) =>
    LET t == lastArg[1]
        hits == Overlapping(prev, t)
    IN IF hits # {}
         THEN /\ Len(clusters) = Len(prev)
              /\ LET i == CHOOSE i \in hits : \A j \in hits : i <= j
                 IN /\ clusters[i].id = prev[i].id
                    /\ clusters[i].trackings = prev[i].trackings \cup {t.tracking_number}
                    /\ clusters[i].orders = prev[i].orders \cup t.order_ids
         ELSE /\ Len(clusters) = Len(prev) + 1
              /\ \A i \in 1..Len(prev) : clusters[i] = prev[i]
              /\ \A i \in 1..Len(prev) : clusters[Len(clusters)].id # prev[i].id
              /\ clusters[Len(clusters)].group = t.group
              /\ t.tracking_number \in clusters[Len(clusters)].trackings

\* a tracking with a new tracking number and a new order id was ingested
\* into an existing cluster that shared its other order id
C7_Witness ==
  /\ lastOp = "update"
  /\ Len(lastArg) = 1
  /\ Len(clusters) = Len(prev)
  /\ \E i \in Overlapping(prev, lastArg[1]) :
       /\ lastArg[1].tracking_number \notin prev[i].trackings
       /\ lastArg[1].tracking_number \in clusters[i].trackings
       /\ prev[i].orders # clusters[i].orders

\* C10: a cluster's group never changes after creation under
\* update_clusters, merge_with, merge_by_purchase_orders or dedupe_clusters
\* (a cluster present before and after an operation has the same group),
\* and merge_by_purchase_orders only merges clusters of identical group.
C10_GroupFixed ==
  lastOp \in {"update", "merge", "dedupe"} =>
    /\ \A i \in 1..Len(clusters), j \in 1..Len(prev) :
         clusters[i].id = prev[j].id => clusters[i].group = prev[j].group
    /\ \A k \in 1..Len(mergeLog) : mergeLog[k].into_group = mergeLog[k].from_group

\* a merge pass ran, after an ingestion, on a collection in which clusters
\* of two different groups shared a purchase order, and merged something
C10_Witness ==
  /\ lastOp = "merge"
  /\ prevOp = "update"
  /\ mergeLog # << >>
  /\ \E i, j \in 1..Len(prev) :
       /\ prev[i].group # prev[j].group
       /\ prev[i].purchase_orders \cap prev[j].purchase_orders # {}

----------------------------------------------------------------------------
(* Properties of dedupe_clusters and of the store *)

\* pairwise disjoint trackings and no empty group
Deduped(cs) ==
  /\ \A i, j \in 1..Len(cs) : i # j => cs[i].trackings \cap cs[j].trackings = {}
  /\ \A i \in 1..Len(cs) : cs[i].group # ""

\* C2: in the list returned by dedupe_clusters every two distinct clusters
\* have disjoint trackings and every cluster has a non-empty group; the
\* same holds for the collection write_clusters persists (the local file,
\* and the mirror when it was saved).
C2_NoOverlapAfterDedupe ==
  /\ lastOp = "dedupe" => Deduped(clusters)
  /\ lastOp = "write" =>
       /\ localFile.exists
       /\ Deduped(localFile.data)
       /\ lastArg = TRUE => (drive.exists /\ Deduped(drive.data))

\* write_clusters persisted, locally and to the mirror, a collection that
\* had overlapping trackings or an empty group, and kept two clusters
C2_Witness ==
  /\ lastOp = "write"
  /\ lastArg = TRUE
  /\ ~Deduped(clusters)
  /\ Len(localFile.data) >= 2

\* C5 (as claimed): on every load path get_existing_clusters returns a
\* deduped collection: pairwise disjoint trackings, no empty group.
C5_LoadAlwaysDedupes ==
  lastOp = "load" => Deduped(clusters)

\* C9: dedupe stability: dedupe_clusters applied to its own output returns
\* an identical collection.
C9_DedupeStable ==
  (lastOp = "dedupe" /\ prevOp = "dedupe") => clusters = prev

\* the first application had dropped a cluster
C9_Witness ==
  /\ lastOp = "dedupe"
  /\ prevOp = "dedupe"
  /\ clusters # << >>
  /\ nextId > Len(clusters) + 1

----------------------------------------------------------------------------
(* Properties of merge_by_purchase_orders *)

\* clusters i and j of cs are linked: same group and a common purchase order
Linked(cs, i, j) ==
  \/ i = j
  \/ /\ cs[i].group = cs[j].group
     /\ cs[i].purchase_orders \cap cs[j].purchase_orders # {}

RECURSIVE Reach(_, _)
Reach(cs, S) ==
  LET N == S \cup {j \in 1..Len(cs) : \E i \in S : Linked(cs, i, j)}
  IN IF N = S THEN S ELSE Reach(cs, N)

\* the connected components of cs, as sets of positions
Components(cs) == {Reach(cs, {i}) : i \in 1..Len(cs)}

NoSharedPO(cs) ==
  \A i, j \in 1..Len(cs) :
    (i # j /\ cs[i].group = cs[j].group)
      => cs[i].purchase_orders \cap cs[j].purchase_orders = {}

\* C1: merge_by_purchase_orders returns one cluster per connected component
\* of "same group and shares a purchase order": no two distinct output
\* clusters of one group share a purchase order, the output has as many
\* clusters as the input has components, and every component is
\* represented by one output cluster that is one of its members and carries
\* the union of the component's purchase orders.
C1_OnePerComponent ==
  lastOp = "merge" =>
    /\ NoSharedPO(clusters)
    /\ Len(clusters) = Cardinality(Components(prev))
    /\ \A K \in Components(prev) :
         \E o \in 1..Len(clusters) :
           /\ \E i \in K : prev[i].id = clusters[o].id
           /\ \A i \in K : prev[i].group = clusters[o].group
           /\ clusters[o].purchase_orders = UNION {prev[i].purchase_orders : i \in K}

\* the chain A{p1}, C{p2}, B{p1,p2} of one group, which one pass leaves as
\* two clusters, came out as one cluster
C1_Witness ==
  /\ lastOp = "merge"
  /\ Len(prev) = 3
  /\ \A i \in 1..3 : prev[i].group = "a"
  /\ prev[1].purchase_orders = {"p1"}
  /\ prev[2].purchase_orders = {"p2"}
  /\ prev[3].purchase_orders = {"p1", "p2"}
  /\ Len(clusters) = 1
  /\ Len(mergeLog) = 2

\* C8: merge idempotence: merge_by_purchase_orders applied to its own output
\* returns the same collection (same clusters, order, fields and length).
C8_MergeIdempotent ==
  (lastOp = "merge" /\ prevOp = "merge") =>
    (clusters = prev /\ shared = prevShared)

\* the second application ran on a collection the first one had merged
C8_Witness ==
  /\ lastOp = "merge"
  /\ prevOp = "merge"
  /\ \E o \in 1..Len(clusters) : clusters[o].expected_cost > clusters[o].id

----------------------------------------------------------------------------
\* C11: after a.merge_with(b), a.expected_cost, a.tracked_cost and
\* a.adjustment are each the sum of the values a and b had before the call
\* (and b keeps its own).
C11_MergeSumsMoney ==
  lastOp = "merge_with" =>
    LET a == lastArg[1]
        b == lastArg[2]
    IN /\ clusters[a].expected_cost = prev[a].expected_cost + prev[b].expected_cost
       /\ clusters[a].tracked_cost = prev[a].tracked_cost + prev[b].tracked_cost
       /\ clusters[a].adjustment = prev[a].adjustment + prev[b].adjustment
       /\ clusters[b].expected_cost = prev[b].expected_cost
       /\ clusters[b].tracked_cost = prev[b].tracked_cost
       /\ clusters[b].adjustment = prev[b].adjustment

\* expected_cost 10 and 5 gives 15, adjustment 1 and -2 gives -1
C11_Witness ==
  /\ lastOp = "merge_with"
  /\ prev[lastArg[1]].expected_cost = 10
  /\ prev[lastArg[2]].expected_cost = 5
  /\ clusters[lastArg[1]].expected_cost = 15
  /\ prev[lastArg[1]].adjustment = 1
  /\ prev[lastArg[2]].adjustment = 0 - 2
  /\ clusters[lastArg[1]].adjustment = 0 - 1

----------------------------------------------------------------------------
\* C12: every merge_with call leaves the target's manual_override true
\* exactly when both operands had it true; so a cluster the merge returns
\* has manual_override true exactly when every input cluster folded into it
\* had (in particular only if every member had).
C12_ConjunctiveOverride ==
  lastOp = "merge" =>
    /\ \A k \in 1..Len(mergeLog) :
         mergeLog[k].result_override =
           (mergeLog[k].into_override /\ mergeLog[k].from_override)
    /\ \A i \in 1..Len(clusters) :
         clusters[i].manual_override =
           (\A j \in 1..Len(prev) :
              prev[j].orders \subseteq clusters[i].orders => prev[j].manual_override)

\* a component of three: the first two members agree on true, the third
\* has false and the merged cluster ends false
C12_Witness ==
  /\ lastOp = "merge"
  /\ Len(prev) = 3
  /\ Len(clusters) = 1
  /\ Len(mergeLog) = 2
  /\ mergeLog[1].into_override /\ mergeLog[1].from_override
  /\ mergeLog[1].result_override
  /\ ~mergeLog[2].from_override
  /\ ~clusters[1].manual_override

----------------------------------------------------------------------------
\* what reading every field of cluster c gives
FieldValues(c, sh) ==
  [orders |-> c.orders, trackings |-> c.trackings, group |-> c.group,
   expected_cost |-> c.expected_cost, tracked_cost |-> c.tracked_cost,
   last_ship_date |-> c.last_ship_date, purchase_orders |-> c.purchase_orders,
   adjustment |-> c.adjustment, to_email |-> c.to_email, notes |-> c.notes,
   manual_override |-> c.manual_override,
   non_reimbursed_trackings |-> NRT(c, sh)]

\* C13: a cluster with no purchase order is neither operand of any
\* merge_with call of merge_by_purchase_orders, and it is in the output
\* with every field reading as it did before.
C13_EmptyPOsUntouched ==
  lastOp = "merge" =>
    \A j \in 1..Len(prev) :
      prev[j].purchase_orders = {} =>
        /\ \A k \in 1..Len(mergeLog) :
             mergeLog[k].into # prev[j].id /\ mergeLog[k].from # prev[j].id
        /\ \E i \in 1..Len(clusters) :
             /\ clusters[i].id = prev[j].id
             /\ FieldValues(clusters[i], shared) = FieldValues(prev[j], prevShared)

----------------------------------------------------------------------------
\* the orders in which one input collection can be handed to the merge
Perms(n) == {f \in [1..n -> 1..n] : \A i, j \in 1..n : i # j => f[i] # f[j]}

Permute(cs, f) == [i \in 1..Len(cs) |-> cs[f[i]]]

Merged(cs, sh) ==
  merge_by_purchase_orders([cl |-> cs, sh |-> sh, log |-> << >>, passes |-> 0])

\* the clusters a merge returned, as the values of their fields
MergedValues(r) == {FieldValues(r.cl[i], r.sh) : i \in 1..Len(r.cl)}

Range(s) == {s[i] : i \in 1..Len(s)}

\* the fields merge_with combines by union, sum, max or conjunction, and
\* the parts of notes without their order
CommutativeValues(v) ==
  [orders |-> v.orders, trackings |-> v.trackings, group |-> v.group,
   expected_cost |-> v.expected_cost, tracked_cost |-> v.tracked_cost,
   adjustment |-> v.adjustment, purchase_orders |-> v.purchase_orders,
   last_ship_date |-> v.last_ship_date, manual_override |-> v.manual_override,
   note_parts |-> Range(v.notes)]

----------------------------------------------------------------------------
\* the same a.merge_with(b) has just been applied a second time
MergedTwice ==
  /\ lastOp = "merge_with"
  /\ prevOp = "merge_with"
  /\ lastArg = prevArg

SetValues(c, sh) ==
  [orders |-> c.orders, trackings |-> c.trackings,
   purchase_orders |-> c.purchase_orders,
   non_reimbursed_trackings |-> NRT(c, sh)]

MoneyValues(c) ==
  [expected_cost |-> c.expected_cost, tracked_cost |-> c.tracked_cost,
   adjustment |-> c.adjustment]

\* C15 (as stated): applying a.merge_with(b) a second time leaves orders,
\* trackings, purchase_orders, non_reimbursed_trackings, expected_cost,
\* tracked_cost and adjustment of a as they were after the first time.
C15_MergeTwiceSame ==
  MergedTwice =>
    /\ SetValues(clusters[lastArg[1]], shared) = SetValues(prev[lastArg[1]], prevShared)
    /\ MoneyValues(clusters[lastArg[1]]) = MoneyValues(prev[lastArg[1]])

\* C15 (amended): applying a.merge_with(b) a second time leaves the set
\* fields of a as they were after the first time, and adds expected_cost,
\* tracked_cost and adjustment of b to those of a once more.
C15_SetsIdempotentSumsRepeat ==
  MergedTwice =>
    LET a == lastArg[1]
        b == lastArg[2]
    IN /\ SetValues(clusters[a], shared) = SetValues(prev[a], prevShared)
       /\ clusters[a].expected_cost = prev[a].expected_cost + prev[b].expected_cost
       /\ clusters[a].tracked_cost = prev[a].tracked_cost + prev[b].tracked_cost
       /\ clusters[a].adjustment = prev[a].adjustment + prev[b].adjustment
       /\ MoneyValues(clusters[b]) = MoneyValues(prev[b])

\* 10 and 5: 15 after the first merge_with, 20 after the second, the sets
\* of a already holding those of b
C15_Witness ==
  /\ MergedTwice
  /\ prev[lastArg[1]].expected_cost = 15
  /\ clusters[lastArg[1]].expected_cost = 20
  /\ clusters[lastArg[2]].expected_cost = 5
  /\ prev[lastArg[2]].orders \subseteq prev[lastArg[1]].orders
  /\ clusters[lastArg[1]].orders = prev[lastArg[1]].orders

----------------------------------------------------------------------------
\* cluster j of the input of the last operation is in its output
Kept(j) == \E k \in 1..Len(clusters) : clusters[k].id = prev[j].id

\* clusters i and j of the input have a group and a tracking in common
Rivals(i, j) ==
  /\ prev[i].group # ""
  /\ prev[j].group # ""
  /\ prev[i].trackings \cap prev[j].trackings # {}

\* C16 (as stated): of two clusters with non-empty group that share a
\* tracking, dedupe_clusters keeps the earlier and drops the later; the
\* later is never in the output while the earlier is not.  (That the
\* earlier is kept is left out here: it is the weaker reading, which fails
\* only when the later of the two is in the output without the earlier.)
C16_FirstWins ==
  lastOp = "dedupe" =>
    \A i, j \in 1..Len(prev) :
      (i < j /\ Rivals(i, j)) => (~Kept(j) /\ ~(Kept(j) /\ ~Kept(i)))

\* C16 (amended): of two clusters with non-empty group that share a
\* tracking, the later is dropped whenever the earlier is kept, and at most
\* one is kept; the later is in the output without the earlier only when
\* the earlier was itself dropped for sharing a tracking with a kept
\* cluster before it.
C16_FirstKeptWins ==
  lastOp = "dedupe" =>
    \A i, j \in 1..Len(prev) :
      (i < j /\ Rivals(i, j)) =>
        /\ Kept(i) => ~Kept(j)
        /\ (Kept(j) /\ ~Kept(i)) =>
             \E h \in 1..(i - 1) : Kept(h) /\ Rivals(h, i)

\* A{t1}, B{t1,t2}, C{t2}: A kept, B dropped, C kept although B shares t2
\* with it and comes first
C16_Witness ==
  /\ lastOp = "dedupe"
  /\ Len(prev) = 3
  /\ Rivals(1, 2) /\ Rivals(2, 3) /\ ~Rivals(1, 3)
  /\ Kept(1) /\ ~Kept(2) /\ Kept(3)

----------------------------------------------------------------------------
\* the trackings claimed when the loop of dedupe_clusters reaches cluster j
\* of the input: those of the clusters kept before it
Claimed(j) == UNION {prev[i].trackings : i \in {h \in 1..(j - 1) : Kept(h)}}

\* C17 (as stated): dedupe_clusters drops a cluster exactly when its group
\* is empty or all of its trackings were claimed by earlier clusters; a
\* cluster with a tracking not yet claimed is kept.  ("All" is read of a
\* cluster that has trackings.)
C17_DropsWhenAllClaimed ==
  lastOp = "dedupe" =>
    \A j \in 1..Len(prev) :
      ~Kept(j) <=>
        \/ prev[j].group = ""
        \/ prev[j].trackings # {} /\ prev[j].trackings \subseteq Claimed(j)

\* C17 (amended): dedupe_clusters drops a cluster exactly when its group is
\* empty or at least one of its trackings was claimed by an earlier kept
\* cluster; a cluster with a group and no claimed tracking is kept.
C17_DropsWhenAnyClaimed ==
  lastOp = "dedupe" =>
    \A j \in 1..Len(prev) :
      ~Kept(j) <=> (prev[j].group = "" \/ prev[j].trackings \cap Claimed(j) # {})

\* a cluster with a group, one claimed and one unclaimed tracking is dropped
C17_Witness ==
  /\ lastOp = "dedupe"
  /\ \E j \in 1..Len(prev) :
       /\ prev[j].group # ""
       /\ prev[j].trackings \cap Claimed(j) # {}
       /\ prev[j].trackings \ Claimed(j) # {}
       /\ ~Kept(j)

----------------------------------------------------------------------------
\* the attempts of get_new_tracking_pos_costs_maps_with_retry so far: each
\* with the arguments of the call, each but a last returning one raised
\* (attempt k + 1 was made only after attempt k raised), at most five
RetrySequential ==
  fop = "fetch" =>
    /\ Len(calls) <= FetchAttempts
    /\ \A k \in 1..Len(calls) : calls[k] = fargs
    /\ \A k \in 1..Len(raised) : raised[k].attempt = k
    /\ Len(calls) = Len(raised) + (IF fpc = "returned" THEN 1 ELSE 0)
    /\ fpc = "returned" => ~ENABLED (\E live \in AdapterOutcomes : FetchAttempt(live))

\* the step in which the call returns: what it returns is what the
\* dispatch returned in that attempt
RetryReturnsResult ==
  (fop = "fetch" /\ fpc = "loop" /\ fpc' = "returned") =>
    \E live \in AdapterOutcomes :
      LET r == get_new_tracking_pos_costs_maps(fargs.group, live, archives)
      IN /\ ~r.raises
         /\ fout' = [t |-> r.t, po |-> r.po]
         /\ calls' = Append(calls, fargs)
         /\ raised' = raised

\* C18: the retry loop is sequential and stops at the first success:
\* attempt k+1 starts only after attempt k raised, every attempt is made
\* with the (group, known_trackings, full) of the call, the result of the
\* first attempt that does not raise is returned as it is and no attempt
\* follows it, and there are never more than 5 attempts.
C18_SequentialRetry == [](RetrySequential) /\ [][RetryReturnsResult]_vars

\* two attempts raised, the third returned maps that are not empty
C18_Witness ==
  /\ fop = "fetch"
  /\ fpc = "returned"
  /\ Len(raised) = 2
  /\ Len(calls) = 3
  /\ fout.t # << >>
  /\ fargs.known_trackings # {}

----------------------------------------------------------------------------
\* the lookup coroutines that have not returned yet
Pending == {k \in 1..Len(tasks) : tasks[k].at \in {"request", "json"}}

\* the call has returned only with every lookup done or failed; while it
\* waits, every pending lookup can take its next step, whatever its
\* siblings did
GatherWaitsForAll ==
  /\ upc = "returned" => Pending = {}
  /\ upc = "gather" =>
       \A k \in Pending :
         \/ ENABLED LookupResponse(k, TRUE)
         \/ ENABLED LookupJson(k, TRUE)

\* a step of one lookup, failing or not, leaves its siblings where they
\* are and the call waiting
SiblingsUntouched ==
  (upc = "gather" /\ tasks' # tasks) =>
    /\ upc' = "gather"
    /\ \E k \in 1..Len(tasks) :
         /\ tasks'[k] # tasks[k]
         /\ \A j \in 1..Len(tasks) : j # k => tasks'[j] = tasks[j]

\* C19: _get_usa_tracking_pos_prices returns only after every lookup it
\* issued has succeeded or failed; a failing lookup neither cancels its
\* siblings nor keeps them from completing; and, every lookup completing
\* eventually, the call returns eventually.
C19_FanOutCompletes ==
  /\ [](GatherWaitsForAll)
  /\ [][SiblingsUntouched]_vars
  /\ (upc = "gather" ~> upc = "returned")

\* the call returned with a failed lookup, a sibling that succeeded and
\* the sibling's price in the map
C19_Witness ==
  /\ upc = "returned"
  /\ \E k, j \in 1..Len(tasks) :
       /\ tasks[k].at = "failed"
       /\ tasks[j].at = "done"
       /\ <<tasks[j].tn>> \in DOMAIN prices

----------------------------------------------------------------------------
\* the task that runs _get_usa_tracking_pos_prices itself; the lookup
\* coroutines are tasks 1..Len(tasks)
Coordinator == 0

\* C20 (as stated): tracking_tuples_to_prices, the map the lookups share,
\* is written by the coordinating task only: no lookup task writes to it.
C20_OnlyCoordinatorWrites ==
  \A w \in writes : w.task = Coordinator

\* every entry of the map was written by a lookup, under the key of its own
\* tracking number, and a lookup has written exactly when it is done
LookupsWriteOwnKey ==
  /\ \A w \in writes :
       /\ w.task \in 1..Len(tasks)
       /\ w.key = <<tasks[w.task].tn>>
  /\ \A k \in 1..Len(tasks) :
       (tasks[k].at = "done") <=> (\E w \in writes : w.task = k)
  /\ DOMAIN prices = {w.key : w \in writes}

\* the writes do not interleave: a step of the event loop holds at most
\* one of them, made by the lookup that completes in it
OneWritePerStep ==
  writes' # writes =>
    \E k \in 1..Len(tasks) :
      /\ tasks[k].at = "json"
      /\ tasks'[k].at = "done"
      /\ writes' = writes \cup {[task |-> k, key |-> <<tasks[k].tn>>]}

\* C20 (amended): the map is written by the lookup tasks themselves, each
\* storing the cost under the key of its own tracking number when it
\* succeeds; the coordinating task creates and returns the map and writes
\* no entry; the writes are serialized, one whole lookup step at a time.
C20_LookupsWriteSerially ==
  /\ [](LookupsWriteOwnKey)
  /\ [][upc = "gather" => OneWritePerStep]_vars

\* the call returned a map holding entries written by two different lookups
C20_Witness ==
  /\ upc = "returned"
  /\ \E v, w \in writes : v.task # w.task /\ v.key # w.key
  /\ \A w \in writes : w.key \in DOMAIN prices

----------------------------------------------------------------------------
\* the names of a sequence of archive groups
ArchiveNames(group) == {ArchivesOf(group)[i] : i \in 1..Len(ArchivesOf(group))}

\* an archive that is stored stays as it is
ArchivesImmutable ==
  \A a \in DOMAIN archives : archives[a].has => archives'[a] = archives[a]

\* a call for a portal group: an archive the store lacks is fetched, so no
\* attempt fails for another reason than its live adapter; a call that
\* returned has every archive of the group in the store and its entries in
\* the maps it returned
ArchivesReadThrough ==
  (fop = "fetch" /\ fargs.group \in MelulPortalGroups) =>
    /\ \A k \in 1..Len(raised) : raised[k].kind \in ExcKinds
    /\ fpc = "returned" =>
         \A a \in ArchiveNames(fargs.group) :
           /\ archives[a].has
           /\ \A key \in DOMAIN archives[a].po :
                key \in DOMAIN fout.po /\ fout.po[key] = archives[a].po[key]
           /\ \A key \in DOMAIN archives[a].t :
                key \in DOMAIN fout.t /\ fout.t[key] = archives[a].t[key]

\* C21 (as stated): archives are read-through cached: an archive the store
\* has no entry for is fetched from the source and put into the store, a
\* stored archive is never fetched or put again, and every successful call
\* returns maps that hold the stored archive's entries.
C21_ArchivesReadThrough ==
  /\ [](ArchivesReadThrough)
  /\ [][ArchivesImmutable]_vars

----------------------------------------------------------------------------
(* Tabular export and import: to_row, get_header, from_row                 *)
(*                                                                         *)
(* A string that the code joins or splits on ',' is modelled by the list   *)
(* s.split(',') of its pieces, a piece by the list of its atoms: "" is one *)
(* empty piece, "o1,o2" is two pieces of one atom, "'o1" is one piece of   *)
(* the atoms "'" and "o1".  Identifiers, notes, e-mail addresses and dates *)
(* that are not split are atoms; amounts are integers.                     *)

\* the string of an identifier
Str(a) == <<a>>

\* ''
EmptyText == << << >> >>

\* ",".join(S): the pieces in the iteration order of the set
RECURSIVE JoinPieces(_)
JoinPieces(S) ==
  IF S = {} THEN << >>
  ELSE LET a == CHOOSE x \in S : TRUE
       IN <<Str(a)>> \o JoinPieces(S \ {a})

Join(S) == IF S = {} THEN EmptyText ELSE JoinPieces(S)

\* "'" + text
Quoted(text) == [text EXCEPT ![1] = <<"'">> \o text[1]]

\* set(text.split(','))
SplitSet(text) == {text[i] : i \in 1..Len(text)}

\* header.index(col): the first position of col
Index(header, col) == CHOOSE i \in 1..Len(header) : header[i] = col /\ \A j \in 1..(i - 1) : header[j] # col

In(header, col) == \E i \in 1..Len(header) : header[i] = col

\* row[header.index(col)]
Cell(header, row, col) == row[Index(header, col)]

\* Cluster.get_header
cluster_get_header ==
  <<"Orders", "Trackings", "Amount Billed", "Amount Reimbursed",
    "Non-Reimbursed Trackings", "Last Ship Date", "POs", "Group",
    "Manual Cost Adjustment", "Manual Override", "Total Diff", "Notes">>

\* Cluster.to_row; the 11th value is the formula of the Total Diff column
cluster_to_row(c, sh) ==
  <<Join(c.orders), Join(c.trackings), c.expected_cost, c.tracked_cost,
    Join(NRT(c, sh)), c.last_ship_date, Quoted(Join(c.purchase_orders)), c.group,
    c.adjustment, c.manual_override, "=INDIRECT", c.notes>>

\* clusters.from_row(header, row): every column is looked up only when the
\* header has it; float() of an amount is the amount
cluster_from_row(header, row) ==
  [raises |-> FALSE, kind |-> "None", value |->
    [orders |-> IF In(header, "Orders")
                  THEN SplitSet(Cell(header, row, "Orders")) ELSE {},
     trackings |-> IF In(header, "Trackings")
                     THEN SplitSet(Cell(header, row, "Trackings")) ELSE {},
     expected_cost |-> IF In(header, "Amount Billed")
                         THEN Cell(header, row, "Amount Billed") ELSE 0,
     tracked_cost |-> IF In(header, "Amount Reimbursed")
                        THEN Cell(header, row, "Amount Reimbursed") ELSE 0,
     non_reimbursed_trackings |->
        IF In(header, "Non-Reimbursed Trackings")
             /\ Cell(header, row, "Non-Reimbursed Trackings") # EmptyText
          THEN SplitSet(Cell(header, row, "Non-Reimbursed Trackings")) ELSE {},
     last_ship_date |-> IF In(header, "Last Ship Date")
                          THEN Cell(header, row, "Last Ship Date") ELSE 0,
     purchase_orders |-> IF In(header, "POs") /\ Cell(header, row, "POs") # EmptyText
                           THEN SplitSet(Cell(header, row, "POs")) ELSE {},
     group |-> IF In(header, "Group") THEN Cell(header, row, "Group") ELSE "",
     adjustment |-> IF In(header, "Manual Cost Adjustment")
                      THEN Cell(header, row, "Manual Cost Adjustment") ELSE 0,
     manual_override |-> IF In(header, "Manual Override")
                           THEN Cell(header, row, "Manual Override") ELSE FALSE,
     to_email |-> IF In(header, "To Email") THEN Cell(header, row, "To Email") ELSE "",
     notes |-> IF In(header, "Notes") THEN Cell(header, row, "Notes") ELSE << >>]]

\* Tracking.get_header
tracking_get_header ==
  <<"Tracking Number", "Order Number(s)", "To Email", "Ship Date",
    "Est. Delivery Date", "Group", "Amount Reimbursed", "Merchant", "Items">>

\* the columns tracking.from_row indexes without asking the header first
TrackingRequired ==
  {"Tracking Number", "Order Number(s)", "To Email", "Ship Date", "Group"}

\* tracking.from_row(header, row): header.index raises ValueError for a
\* column the header lacks; strip() of a piece without blanks is the piece
tracking_from_row(header, row) ==
  IF \E col \in TrackingRequired : ~In(header, col)
    THEN [raises |-> TRUE, kind |-> "ValueError", value |-> << >>]
  ELSE [raises |-> FALSE, kind |-> "None", value |->
    [tracking_number |-> Cell(header, row, "Tracking Number"),
     order_ids |-> SplitSet(Cell(header, row, "Order Number(s)")),
     price |-> IF In(header, "Price") THEN Cell(header, row, "Price") ELSE 0,
     to_email |-> Cell(header, row, "To Email"),
     ship_date |-> Cell(header, row, "Ship Date"),
     delivery_date |-> IF In(header, "Est. Delivery Date")
                         THEN Cell(header, row, "Est. Delivery Date") ELSE "",
     group |-> Cell(header, row, "Group"),
     tracked_cost |-> IF In(header, "Amount Reimbursed")
                        THEN Cell(header, row, "Amount Reimbursed") ELSE 0,
     items |-> IF In(header, "Items") THEN Cell(header, row, "Items") ELSE "",
     merchant |-> IF In(header, "Merchant") THEN Cell(header, row, "Merchant") ELSE "",
     reconcile |-> TRUE]]

\* the columns from_row of a cluster and of a tracking know by name
ClusterColumns == cluster_get_header \o <<"To Email">>
TrackingColumns == tracking_get_header \o <<"Price">>

\* the header that has the columns of cols, in the order of columns
HeaderOf(columns, cols) ==
  LET Present(col) == col \in cols
  IN SelectSeq(columns, Present)

\* a well-formed value for every column
SampleCell(col) ==
  CASE col \in {"Orders", "Order Number(s)"} -> <<Str("o1"), Str("o2")>>
    [] col \in {"Trackings", "Non-Reimbursed Trackings"} -> <<Str("t1")>>
    [] col = "POs" -> <<Str("p1")>>
    [] col \in {"Amount Billed", "Price"} -> 10
    [] col = "Amount Reimbursed" -> 5
    [] col = "Manual Cost Adjustment" -> 0 - 2
    [] col \in {"Last Ship Date", "Ship Date", "Est. Delivery Date"} -> 1
    [] col = "Manual Override" -> TRUE
    [] col = "Notes" -> <<1>>
    [] col = "Tracking Number" -> "t1"
    [] OTHER -> col

SampleRow(header) == [i \in 1..Len(header) |-> SampleCell(header[i])]

\* history of a conversion: the engine's collection is not touched
RecordRow(op, arg) ==
  /\ lastOp = "init"
  /\ lastOp' = op
  /\ lastArg' = arg
  /\ UNCHANGED <<clusters, shared, nextId, prev, prevShared, prevOp, prevArg,
                 mergeLog, opCount, localFile, drive, usaVars, orchVars>>

ClusterFromRow(header) ==
  /\ imported' = cluster_from_row(header, SampleRow(header))
  /\ RecordRow("cluster_from_row", header)

TrackingFromRow(header) ==
  /\ imported' = tracking_from_row(header, SampleRow(header))
  /\ RecordRow("tracking_from_row", header)

InitRows ==
  /\ clusters = << >>
  /\ InitHistory
  /\ localFile = Absent
  /\ drive = Absent

\* one conversion in a run
NextRows ==
  \/ /\ lastOp = "init"
     /\ \E cols \in SUBSET SplitSet(ClusterColumns) :
          ClusterFromRow(HeaderOf(ClusterColumns, cols))
  \/ /\ lastOp = "init"
     /\ \E cols \in SUBSET SplitSet(TrackingColumns) :
          TrackingFromRow(HeaderOf(TrackingColumns, cols))

SpecRows == InitRows /\ [][NextRows]_vars

\* the value of the field a column fills when the column is absent
ColumnDefault(col) ==
  CASE col \in {"Orders", "Trackings", "Non-Reimbursed Trackings", "POs"} -> {}
    [] col \in {"Amount Billed", "Amount Reimbursed", "Manual Cost Adjustment",
                "Price", "Last Ship Date"} -> 0
    [] col = "Manual Override" -> FALSE
    [] col = "Notes" -> << >>
    [] OTHER -> ""

\* the field of the imported object a column fills
FieldOf(v, col) ==
  CASE col = "Orders" -> v.orders
    [] col = "Trackings" -> v.trackings
    [] col = "Amount Billed" -> v.expected_cost
    [] col = "Amount Reimbursed" -> v.tracked_cost
    [] col = "Non-Reimbursed Trackings" -> v.non_reimbursed_trackings
    [] col = "Last Ship Date" -> v.last_ship_date
    [] col = "POs" -> v.purchase_orders
    [] col = "Group" -> v.group
    [] col = "Manual Cost Adjustment" -> v.adjustment
    [] col = "Manual Override" -> v.manual_override
    [] col = "Notes" -> v.notes
    [] col = "To Email" -> v.to_email
    [] col = "Price" -> v.price
    [] col = "Est. Delivery Date" -> v.delivery_date
    [] col = "Merchant" -> v.merchant
    [] col = "Items" -> v.items
    [] col = "Tracking Number" -> v.tracking_number
    [] col = "Order Number(s)" -> v.order_ids
    [] col = "Ship Date" -> v.ship_date

\* the import succeeded and every absent column left its default
Tolerant(columns, fields) ==
  /\ ~imported.raises
  /\ \A col \in fields :
       ~In(lastArg, col) => FieldOf(imported.value, col) = ColumnDefault(col)

\* from_row of a cluster tolerates every set of missing columns
ClusterImportTolerant ==
  lastOp = "cluster_from_row" =>
    Tolerant(ClusterColumns, SplitSet(ClusterColumns) \ {"Total Diff"})

\* from_row of a tracking tolerates every set of missing columns
TrackingImportTolerant ==
  lastOp = "tracking_from_row" =>
    Tolerant(TrackingColumns, SplitSet(TrackingColumns))

\* C22 (as stated): from_row of a cluster and from_row of a tracking
\* succeed for every subset of the named columns missing from the header,
\* and every field whose column is missing takes its empty or zero default.
C22_MissingColumnsTolerated == ClusterImportTolerant /\ TrackingImportTolerant

----------------------------------------------------------------------------
\* no two clusters of one group of cs have an order in common
OrdersApart(cs) ==
  \A i, j \in 1..Len(cs) :
    (i # j /\ cs[i].group = cs[j].group) => cs[i].orders \cap cs[j].orders = {}

\* C23 (as stated): update_clusters gives the tracking number and the order
\* ids of a tracking to every existing cluster of the tracking's group
\* whose orders intersect the tracking's order ids.  (Stated here for the
\* collections in which no order is in two clusters of a group, where the
\* tracking itself is what joins the clusters.)
C23_EveryOverlappingUpdated ==
  (lastOp = "update" /\ Len(lastArg) = 1 /\ OrdersApart(prev)) =>
    \A i \in Overlapping(prev, lastArg[1]) :
      /\ lastArg[1].tracking_number \in clusters[i].trackings
      /\ lastArg[1].order_ids \subseteq clusters[i].orders

----------------------------------------------------------------------------
(* Specification of repeated ingestion: update_clusters applied batch      *)
(* after batch to a collection that is empty or holds one cluster, built   *)
(* by Cluster(group) or by from_row                                        *)

UpdateShapes == [orders : {{"o1"}}, nrt : {"default", "own"}]

UpdateInputs ==
  {[i \in 1..Len(s) |->
      [InputCluster(i, "a", s[i].orders, {TrackingAt[i]}, {}) EXCEPT
         !.nrt_ref = s[i].nrt,
         !.non_reimbursed_trackings = IF s[i].nrt = "own" THEN {TrackingAt[i]} ELSE {}]]
     : s \in SeqsUpTo(UpdateShapes, 1)}

InitUpdate ==
  /\ clusters \in UpdateInputs
  /\ InitHistory
  /\ localFile = Absent
  /\ drive = Absent

NextUpdate == Count /\ \E batch \in Batches : UpdateClusters(batch)

SpecUpdate == InitUpdate /\ [][NextUpdate]_vars

\* the same batch of one tracking has just been ingested a second time
Reobserved ==
  /\ lastOp = "update"
  /\ prevOp = "update"
  /\ lastArg = prevArg
  /\ Len(lastArg) = 1

\* C24 (as stated): update_clusters called a second time with a tracking
\* that was already ingested creates no cluster and leaves every cluster of
\* the collection as it was, whatever the tracking's order ids, the empty
\* set included.
C24_ReobservationStable ==
  Reobserved => clusters = prev

\* the same for trackings that have an order id
ReobservationStableWithOrders ==
  (Reobserved /\ lastArg[1].order_ids # {}) => clusters = prev

----------------------------------------------------------------------------
\* the collection after k passes of run_merge_iteration over cs
RECURSIVE AfterPasses(_, _, _)
AfterPasses(cs, sh, k) ==
  IF k = 0 THEN [result |-> cs, sh |-> sh]
  ELSE LET r == AfterPasses(cs, sh, k - 1)
           q == run_merge_iteration(r.result, r.sh, << >>)
       IN [result |-> q.result, sh |-> q.sh]

\* the last merge ran lastArg passes over prev: every pass but the last
\* made the collection shorter, the last one left its length (it merged
\* nothing), and what it returned is the collection after these passes
PassesShrink ==
  /\ lastArg >= 1
  /\ \A k \in 1..(lastArg - 1) :
       Len(AfterPasses(prev, prevShared, k).result) <
         Len(AfterPasses(prev, prevShared, k - 1).result)
  /\ Len(AfterPasses(prev, prevShared, lastArg).result) =
       Len(AfterPasses(prev, prevShared, lastArg - 1).result)
  /\ clusters = AfterPasses(prev, prevShared, lastArg).result
  /\ Len(mergeLog) = Len(prev) - Len(clusters)

\* C25 (as stated): every pass of merge_by_purchase_orders that is not the
\* last makes the collection shorter, the pass at which it stops merged
\* nothing, and for n input clusters it runs at most n passes.
C25_AtMostNPasses ==
  lastOp = "merge" => (PassesShrink /\ lastArg <= Len(prev))

\* C25 (amended): the same, with at most n passes for n >= 1 input clusters
\* and one pass for the empty collection.
C25_AtMostNPassesOrOne ==
  lastOp = "merge" => (PassesShrink /\ lastArg <= Max(Len(prev), 1))

\* three clusters need three passes: the third joins the first in pass 1,
\* the second joins it in pass 2, pass 3 merges nothing
C25_Witness ==
  /\ lastOp = "merge"
  /\ Len(prev) = 3
  /\ lastArg = 3
  /\ Len(clusters) = 1

----------------------------------------------------------------------------
\* in every cluster of cs the non-reimbursed trackings it reads are among
\* its trackings
NrtWithinTrackings(cs, sh) ==
  \A i \in 1..Len(cs) : NRT(cs[i], sh) \subseteq cs[i].trackings

\* every cluster of cs has a non_reimbursed_trackings set of its own
NrtPrivate(cs) == \A i \in 1..Len(cs) : cs[i].nrt_ref = "own"

\* C26: in every cluster non_reimbursed_trackings is a subset of
\* trackings, from a collection where this holds and through every
\* merge_by_purchase_orders applied to it.
C26_NrtWithinTrackings == NrtWithinTrackings(clusters, shared)

\* the same for collections whose clusters each own their set
NrtWithinTrackingsWhenPrivate ==
  NrtPrivate(clusters) => NrtWithinTrackings(clusters, shared)

----------------------------------------------------------------------------
\* the sum of the money field f over the clusters of cs
RECURSIVE SumOver(_, _)
SumOver(cs, f) == IF cs = << >> THEN 0 ELSE Head(cs)[f] + SumOver(Tail(cs), f)

\* the union of the set field f over the clusters of cs
UnionOver(cs, f) == UNION {cs[i][f] : i \in 1..Len(cs)}

MoneyFields == {"expected_cost", "tracked_cost", "adjustment"}
KeyFields == {"orders", "trackings", "purchase_orders"}

\* C27: merge_by_purchase_orders counts every cost exactly once: the sums
\* of expected_cost, tracked_cost and adjustment over the output equal
\* those over the input, and so do the unions of orders, trackings and
\* purchase_orders.
C27_CostsCountedOnce ==
  lastOp = "merge" =>
    /\ \A f \in MoneyFields : SumOver(clusters, f) = SumOver(prev, f)
    /\ \A f \in KeyFields : UnionOver(clusters, f) = UnionOver(prev, f)

\* three clusters with different costs were merged into one
C27_Witness ==
  /\ lastOp = "merge"
  /\ Len(prev) = 3
  /\ Len(clusters) = 1
  /\ Len(mergeLog) = 2
  /\ clusters[1].expected_cost = SumOver(prev, "expected_cost")
  /\ clusters[1].expected_cost > prev[1].expected_cost

----------------------------------------------------------------------------
\* the clusters that were the target (self) of a merge_with call of the
\* last operation
MergeTargets == {mergeLog[k].into : k \in 1..Len(mergeLog)}

\* every cluster of the output that was the target of no merge_with call
\* reads in every field as it did before the operation
OnlyTargetsChange ==
  \A i \in 1..Len(clusters) : \A j \in 1..Len(prev) :
    (clusters[i].id = prev[j].id /\ prev[j].id \notin MergeTargets) =>
      FieldValues(clusters[i], shared) = FieldValues(prev[j], prevShared)

\* C28: no two clusters share a mutable set: the merge_with calls of
\* merge_by_purchase_orders change fields of their target cluster only and
\* leave every field of every other cluster of the collection unchanged.
C28_OnlyTargetsChange == lastOp = "merge" => OnlyTargetsChange

\* the same for collections whose clusters each own their sets
OnlyTargetsChangeWhenPrivate ==
  (lastOp = "merge" /\ NrtPrivate(prev)) => OnlyTargetsChange

----------------------------------------------------------------------------
(* Export of a cluster followed by import of the row *)

RoundTripShapes ==
  [orders : SUBSET {"o1", "o2"}, trackings : SUBSET {"t1", "t2"},
   pos : SUBSET {"p1", "p2"}, to_email : {"", "e1"},
   manual_override : BOOLEAN, nrt : BOOLEAN]

\* a cluster with the fields of shape s; its non-reimbursed trackings are
\* all of its trackings or none
RoundTripCluster(s) ==
  [InputCluster(1, "a", s.orders, s.trackings, s.pos) EXCEPT
     !.to_email = s.to_email,
     !.manual_override = s.manual_override,
     !.notes = IF s.manual_override THEN <<1>> ELSE << >>,
     !.non_reimbursed_trackings = IF s.nrt THEN s.trackings ELSE {}]

\* from_row(c.get_header(), c.to_row()) for the first cluster
ClusterRoundTrip ==
  /\ lastOp = "init"
  /\ imported' = cluster_from_row(cluster_get_header,
                                  cluster_to_row(clusters[1], shared))
  /\ RecordRow("round_trip", 1)

InitRoundTrip ==
  /\ clusters \in {<<RoundTripCluster(s)>> : s \in RoundTripShapes}
  /\ InitHistory
  /\ localFile = Absent
  /\ drive = Absent

NextRoundTrip == ClusterRoundTrip

SpecRoundTrip == InitRoundTrip /\ [][NextRoundTrip]_vars

\* the strings of the identifiers of S
AsText(S) == {Str(a) : a \in S}

\* the fields of cluster c as from_row would hold them
RowValues(c, sh) ==
  [orders |-> AsText(c.orders), trackings |-> AsText(c.trackings),
   expected_cost |-> c.expected_cost, tracked_cost |-> c.tracked_cost,
   non_reimbursed_trackings |-> AsText(NRT(c, sh)),
   last_ship_date |-> c.last_ship_date,
   purchase_orders |-> AsText(c.purchase_orders), group |-> c.group,
   adjustment |-> c.adjustment, manual_override |-> c.manual_override,
   to_email |-> c.to_email, notes |-> c.notes]

\* to_row has one value per column of get_header, in the header's order
RowFollowsHeader ==
  LET h == cluster_get_header
      row == cluster_to_row(clusters[1], shared)
      c == clusters[1]
  IN /\ Len(row) = Len(h)
     /\ Cell(h, row, "Orders") = Join(c.orders)
     /\ Cell(h, row, "Trackings") = Join(c.trackings)
     /\ Cell(h, row, "Amount Billed") = c.expected_cost
     /\ Cell(h, row, "Amount Reimbursed") = c.tracked_cost
     /\ Cell(h, row, "Non-Reimbursed Trackings") = Join(NRT(c, shared))
     /\ Cell(h, row, "Last Ship Date") = c.last_ship_date
     /\ Cell(h, row, "POs") = Quoted(Join(c.purchase_orders))
     /\ Cell(h, row, "Group") = c.group
     /\ Cell(h, row, "Manual Cost Adjustment") = c.adjustment
     /\ Cell(h, row, "Manual Override") = c.manual_override
     /\ Cell(h, row, "Notes") = c.notes

\* C29: to_row has one value per column of get_header in the header's
\* order, and from_row(c.get_header(), c.to_row()) has the same orders,
\* trackings, purchase_orders, non_reimbursed_trackings, group,
\* expected_cost, tracked_cost, adjustment, last_ship_date,
\* manual_override, notes and to_email as c, empty sets included.
C29_RoundTrip ==
  lastOp = "round_trip" =>
    /\ RowFollowsHeader
    /\ ~imported.raises
    /\ imported.value = RowValues(clusters[1], shared)

\* what the round trip does keep: the row follows the header, the amounts,
\* date, group, override, notes and non-reimbursed trackings come back, and
\* so do orders and trackings that are not empty
RoundTripKeeps ==
  lastOp = "round_trip" =>
    LET c == RowValues(clusters[1], shared)
        r == imported.value
    IN /\ RowFollowsHeader
       /\ ~imported.raises
       /\ \A f \in {"expected_cost", "tracked_cost", "adjustment",
                    "last_ship_date", "group", "manual_override", "notes",
                    "non_reimbursed_trackings"} : r[f] = c[f]
       /\ c.orders # {} => r.orders = c.orders
       /\ c.trackings # {} => r.trackings = c.trackings

\* what it loses: to_email has no column, the purchase orders come back
\* with the quote of the POs cell, and an empty orders or trackings set
\* comes back as the set of the empty string
RoundTripLoses ==
  lastOp = "round_trip" =>
    LET c == clusters[1]
        r == imported.value
    IN /\ r.to_email = ""
       /\ r.purchase_orders # AsText(c.purchase_orders)
       /\ c.orders = {} => r.orders = {<< >>}
       /\ c.trackings = {} => r.trackings = {<< >>}

====
